---------------------------- MODULE Spec2Model ----------------------------
(***************************************************************************)
(* Model of Chapter3-GPs/extras/Example-5-MC-GP-IRS-CVA.ipynb: the data    *)
(* aggregation cells, stratified_sampling, the GP training loop,           *)
(* CVA_simulation and the EPE cell.                                        *)
(*                                                                         *)
(* Conventions.  numpy arrays are sequences; a row index or column index   *)
(* keeps numpy's 0-based value and addresses position index+1 of the       *)
(* sequence.  Market factors and prices are integers.  A quotient is kept  *)
(* as a record [num, den, eps] standing for num / (den + eps * 1e-16), so  *)
(* that a division by zero is visible.  An exception ends the run with     *)
(* its name in err.  The Gaussian process library is outside the notebook: *)
(* fit records the data it is handed, predict returns any mean and any     *)
(* non-negative standard deviation from PredScValues and StdValues.        *)
(***************************************************************************)
EXTENDS Integers, Sequences, FiniteSets, TLC

VARIABLES
    \* inputs: the data files and the notebook's global M
    T, irs_params, shape, M,
    \* notebook globals
    pc, err, port_idx, irs_map, mtm, rates_fx, prev_rates_fx, nt, portfolio,
    ti, tj, idx, gp_in,
    \* CVA_simulation's arguments and locals
    sim, pi, si, sj, acc, test_raw, test_rates, test_rates_sc, preds, CVA, ci,
    \* the EPE cell
    epe,
    \* a direct call stratified_sampling(ss_ar, ss_M) and its outcome
    ss_ar, ss_M, ss_out,
    \* the clipping loop run on its own: test_rates before, the training
    \* range, and test_rates after
    cl_test, cl_min, cl_max, cl_out

dataVars == <<T, irs_params, shape, M>>
nbVars   == <<pc, err, port_idx, irs_map, mtm, rates_fx, prev_rates_fx, nt,
             portfolio, ti, tj, idx, gp_in>>
simVars  == <<sim, pi, si, sj, acc, test_raw, test_rates, test_rates_sc, preds, CVA, ci>>
ssVars   == <<ss_ar, ss_M, ss_out>>
clVars   == <<cl_test, cl_min, cl_max, cl_out>>
vars     == <<dataVars, nbVars, simVars, epe, ssVars, clVars>>

---------------------------------------------------------------------------
(* Generic helpers *)

Range(s) == {s[x] : x \in DOMAIN s}

\* the array f with every element evaluated once (the same value)
Array(f) == f \o <<>>

Min2(a, b) == IF a <= b THEN a ELSE b

Max2(a, b) == IF a >= b THEN a ELSE b

RECURSIVE SumSeq(_)
SumSeq(s) == IF Len(s) = 0 THEN 0 ELSE s[1] + SumSeq(Tail(s))

RECURSIVE Pow(_, _)
Pow(b, e) == IF e = 0 THEN 1 ELSE b * Pow(b, e - 1)

\* np.min / np.max of a one-dimensional array
SeqMin(s) == CHOOSE v \in Range(s) : \A w \in Range(s) : v <= w

SeqMax(s) == CHOOSE v \in Range(s) : \A w \in Range(s) : v >= w

\* ar[:, c]
Column(ar, c) == Array([r \in 1..Len(ar) |-> ar[r][c + 1]])

\* np.shape(ar)[1]
Dim(ar) == Len(ar[1])

\* np.min(ar, axis=0) / np.max(ar, axis=0)
ColMin(ar) == Array([c \in 1..Dim(ar) |-> SeqMin(Column(ar, c - 1))])

ColMax(ar) == Array([c \in 1..Dim(ar) |-> SeqMax(Column(ar, c - 1))])

\* ar[idx, :] (fancy indexing with an array of row indices)
TakeRows(ar, ix) == Array([p \in 1..Len(ix) |-> ar[ix[p] + 1]])

\* np.argmin / np.argmax of a one-dimensional array: the first occurrence
ArgMin(col) == (CHOOSE r \in 1..Len(col) :
                    /\ col[r] = SeqMin(col)
                    /\ \A r2 \in 1..(r - 1) : col[r2] # SeqMin(col)) - 1

ArgMax(col) == (CHOOSE r \in 1..Len(col) :
                    /\ col[r] = SeqMax(col)
                    /\ \A r2 \in 1..(r - 1) : col[r2] # SeqMax(col)) - 1

---------------------------------------------------------------------------
(* stratified_sampling *)

\* the quantile levels [0, 0.25, 0.5, 0.75, 1] in quarters
quantiles == <<0, 1, 2, 3, 4>>

num_buckets == Len(quantiles) - 1

\* the k-th smallest value of col, k counted from 0
OrderStat(col, k) ==
    CHOOSE v \in Range(col) :
        /\ Cardinality({r \in 1..Len(col) : col[r] < v}) <= k
        /\ k < Cardinality({r \in 1..Len(col) : col[r] <= v})

\* 4 * np.quantile(col, b/4): numpy's linear interpolation between the two
\* order statistics around position (n-1)*b/4
Quantile4(col, b) ==
    LET pos4 == (Len(col) - 1) * quantiles[b + 1]
        lo   == pos4 \div 4
        fr   == pos4 % 4
    IN  IF fr = 0 THEN 4 * OrderStat(col, lo)
        ELSE (4 - fr) * OrderStat(col, lo) + fr * OrderStat(col, lo + 1)

\* 4 * np.quantile(ar, quantiles, axis=0): q[b+1][c+1] is 4*q[b, c]
QuantileTable(ar) ==
    Array([b \in 1..(num_buckets + 1) |->
        Array([c \in 1..Dim(ar) |-> Quantile4(Column(ar, c - 1), b - 1)])])

\* (ar[r, c] >= q[b, c]) & (ar[r, c] <= q[b+1, c])
InBucket(ar, q, r, c, b) ==
    /\ 4 * ar[r + 1][c + 1] >= q[b + 1][c + 1]
    /\ 4 * ar[r + 1][c + 1] <= q[b + 2][c + 1]

\* the comparison masks of np.where, evaluated once per array:
\* masks[r+1][c+1][b+1] is the mask of bucket b of column c at row r
BucketMasks(ar) ==
    LET q == QuantileTable(ar)
    IN  Array([r \in 1..Len(ar) |->
            Array([c \in 1..Dim(ar) |->
                Array([b \in 1..num_buckets |->
                    InBucket(ar, q, r - 1, c - 1, b - 1)])])])

\* np.where(mask_0 & mask_1 [& mask_2])[0] for the stratum whose bucket in
\* column c is cell[c+1]: the rows in the stratum, in increasing order
StratumRows(masks, cell) ==
    LET rows == [r \in 1..Len(masks) |-> r - 1]
        In(r) == \A c \in 1..Len(cell) : masks[r + 1][c][cell[c] + 1]
    IN  SelectSeq(rows, In)

\* the strata in the order the nested loops visit them
Cells2 == Array([n \in 1..(num_buckets * num_buckets) |->
             <<(n - 1) \div num_buckets, (n - 1) % num_buckets>>])

Cells3 == Array([n \in 1..(num_buckets * num_buckets * num_buckets) |->
             <<(n - 1) \div (num_buckets * num_buckets),
               ((n - 1) \div num_buckets) % num_buckets,
               (n - 1) % num_buckets>>])

\* np.random.choice(a, size): every array of `size` draws from a, with
\* replacement; an empty a is an error unless no samples are taken
RandomChoice(a, size) ==
    IF Len(a) = 0 /\ size # 0 THEN {[err |-> "ValueError", val |-> <<>>]}
    ELSE {[err |-> "none", val |-> v] : v \in [1..size -> Range(a)]}

\* the dim == 2 branch: what one stratum appends to idx
Take2(members, num_samples) ==
    IF Len(members) > num_samples
    THEN {[err |-> "none", val |-> SubSeq(members, 1, num_samples)]}
    ELSE RandomChoice(members, num_samples)

\* the else branch: what one stratum appends to idx
Take3(members, num_samples) ==
    IF Len(members) > num_samples
    THEN {[err |-> "none", val |-> SubSeq(members, 1, num_samples)]}
    ELSE IF Len(members) > 0 THEN RandomChoice(members, num_samples)
    ELSE {[err |-> "none", val |-> <<>>]}

\* what the stratum cells[n] appends to idx
Take(masks, cells, n, num_samples) ==
    LET members == StratumRows(masks, cells[n])
    IN  IF Len(cells[n]) = 2 THEN Take2(members, num_samples)
        ELSE Take3(members, num_samples)

\* outcomes of running first the strata behind A, then those behind B: an
\* exception ends the loops, otherwise idx = np.append(idx, idx__)
NpAppend(A, B) ==
    {a \in A : a.err # "none"} \cup
    {IF b.err # "none" THEN b ELSE [err |-> "none", val |-> a.val \o b.val] :
        a \in {x \in A : x.err = "none"}, b \in B}

\* the loops over the strata lo..hi of cells, in order: the set of
\* possible [err, val], val being what they append to idx
RECURSIVE SampleLoop(_, _, _, _, _)
SampleLoop(masks, cells, lo, hi, num_samples) ==
    IF lo = hi THEN Take(masks, cells, lo, num_samples)
    ELSE LET mid == (lo + hi) \div 2
         IN  NpAppend(SampleLoop(masks, cells, lo, mid, num_samples),
                      SampleLoop(masks, cells, mid + 1, hi, num_samples))

\* idx[lo:hi] = vals, numpy's slice assignment: the slice is cut at the end
\* of idx, and vals must have the slice's length or length 1
SliceAssign(ix, lo, hi, vals) ==
    LET stop == Min2(hi, Len(ix))
        len  == Max2(0, stop - Min2(lo, Len(ix)))
    IN  IF len # Len(vals) /\ Len(vals) # 1
        THEN [err |-> "ValueError", val |-> ix]
        ELSE [err |-> "none",
              val |-> Array([p \in 1..Len(ix) |->
                         IF p > lo /\ p <= stop
                         THEN (IF Len(vals) = 1 THEN vals[1] ELSE vals[p - lo])
                         ELSE ix[p]])]

\* a variant that writes the rows of the minimums only
EnsureMinOnly(ar, ix) ==
    SliceAssign(ix, 0, Dim(ar), Array([c \in 1..Dim(ar) |-> ArgMin(Column(ar, c - 1))]))

\* "ensure that minimums and maximums are in the training set"
EnsureMinMax(ar, ix) ==
    LET dim     == Dim(ar)
        idx_min == Array([c \in 1..dim |-> ArgMin(Column(ar, c - 1))])
        idx_max == Array([c \in 1..dim |-> ArgMax(Column(ar, c - 1))])
        a1      == SliceAssign(ix, 0, dim, idx_min)
    IN  IF a1.err # "none" THEN a1
        ELSE SliceAssign(a1.val, dim, 2 * dim, idx_max)

\* int(M / (num_buckets**dim))
NumSamples(ar, m) == m \div Pow(num_buckets, Dim(ar))

\* stratified_sampling(ar, M): the set of possible outcomes [err, val]; val
\* is the returned idx when err = "none"
stratified_sampling(ar, m) ==
    LET dim == Dim(ar)
        masks == BucketMasks(ar)
        num_samples == NumSamples(ar, m)
        sampled ==
            IF dim = 2 THEN SampleLoop(masks, Cells2, 1, Len(Cells2), num_samples)
            ELSE IF dim < 3 THEN {[err |-> "IndexError", val |-> <<>>]}
            ELSE SampleLoop(masks, Cells3, 1, Len(Cells3), num_samples)
    IN  {IF s.err # "none" THEN s ELSE EnsureMinMax(ar, s.val) : s \in sampled}

---------------------------------------------------------------------------
(* The data files *)

\* "11 currencies and 10 FX processes": the rates come first, then the FX
n_r == 11

n_fx == 10

\* np.shape(rates_and_fx['arr_0'])[1]
NumProcesses == n_r + n_fx

\* the scenarios kept by the slices [:2*M]
NumScenarios == 2 * M

\* the shapes of the simulated columns, as functions of the scenario k
Pattern(name, k) ==
    CASE name = "A8"     -> ((k % 4) * 2) + ((k \div 16) % 2)
      [] name = "hi4"    -> (k \div 4) % 4
      [] name = "lo4"    -> k % 4
      [] name = "const"  -> 1
      [] name = "spread" -> (k % 3) - 1
      [] name = "flat"   -> 2

\* rates_and_fx['arr_0'][t, p, k]: process p at time step t in scenario k
rates_and_fx(t, p, k) ==
    IF p < n_r THEN Pattern(shape.rate, (k + t) % NumScenarios) + p
    ELSE Pattern(shape.fx, k)

\* mtm_irs['arr_0'][t, inst, k]: the price of instrument inst
mtm_irs(t, inst, k) == Pattern(shape.price, k + inst + t)

\* len(np.arange(start, stop, step)) and np.arange(start, stop, step)
ArangeLen(start, stop, step) ==
    IF stop <= start THEN 0 ELSE (stop - start + step - 1) \div step

Arange(start, stop, step) ==
    [n \in 1..ArangeLen(start, stop, step) |-> start + (n - 1) * step]

---------------------------------------------------------------------------
(* Aggregation cells *)

cpty_idx == 0

\* port_idx: the instruments i with irs_params['arr_0'][i][5] == cpty_idx
SelectPortIdx(params) ==
    SelectSeq([i \in 1..Len(params) |-> i - 1],
              LAMBDA i : params[i + 1].cpty = cpty_idx)

\* the FX process of currency ccy is ccy + 10
FxOffset == 10

\* a variant that takes the FX process one place further
IrsMapEntryPastFx(ccy) ==
    IF ccy = 0 THEN <<0>>
    ELSE <<ccy, ccy + FxOffset + 1>>

\* irs_map[i] for an instrument of currency ccy
IrsMapEntry(ccy) ==
    IF ccy = 0 THEN <<0>>              \* domestic rate
    ELSE <<ccy, ccy + FxOffset>>       \* foreign rate + FX rate

\* the first exposure date and the spacing of the exposure dates
FirstDate == 5

DateStep == 10

\* the lag of the previous reset date
ResetLag == 5

\* the start of the range whose length is nt
NtStart == 1

\* an exception ends the run
Raise(name) ==
    /\ pc' = "error"
    /\ err' = name

SelectPortfolio ==
    /\ pc = "select"
    /\ port_idx' = SelectPortIdx(irs_params)
    /\ pc' = "map"
    /\ UNCHANGED <<dataVars, err, irs_map, mtm, rates_fx, prev_rates_fx, nt,
                   portfolio, ti, tj, idx, gp_in, simVars, epe, ssVars, clVars>>

BuildIrsMap ==
    /\ pc = "map"
    /\ irs_map' = [i \in Range(port_idx) |-> IrsMapEntry(irs_params[i + 1].ccy)]
    /\ pc' = "mtm"
    /\ UNCHANGED <<dataVars, err, port_idx, mtm, rates_fx, prev_rates_fx, nt,
                   portfolio, ti, tj, idx, gp_in, simVars, epe, ssVars, clVars>>

\* mtm[i], rates_fx[i] and prev_rates_fx[i] are slabs of the loaded arrays,
\* never written afterwards: each is kept as its time index
BuildMtm ==
    /\ pc = "mtm"
    /\ mtm' = Arange(FirstDate, T, DateStep)
    /\ prev_rates_fx' = [n \in 1..ArangeLen(FirstDate, T, DateStep) |->
                            Arange(FirstDate, T, DateStep)[n] - ResetLag]
    /\ rates_fx' = Arange(FirstDate, T, DateStep)
    /\ nt' = ArangeLen(NtStart, T, DateStep)
    /\ pc' = "portfolio"
    /\ UNCHANGED <<dataVars, err, port_idx, irs_map, portfolio, ti, tj, idx,
                   gp_in, simVars, epe, ssVars, clVars>>

---------------------------------------------------------------------------
(* GP training loop *)

\* the placeholder 0 of np.array([0]*nt, dtype=object), and a stored value
Placeholder == [is0 |-> TRUE]

Stored(v) == [is0 |-> FALSE, v |-> v]

\* the instruments the inner loop visits: for j in range(20)
NumTrained == 20

\* rates_fx[i][:, cols] (slab = rates_fx[i]); prev_rates_fx likewise
SlabColumns(slab, cols) ==
    Array([k \in 1..NumScenarios |->
        Array([c \in 1..Len(cols) |-> rates_and_fx(slab, cols[c], k - 1)])])

\* rates_ of the training step (i, map): the previous reset's first factor
\* is prepended after the first date
TrainRates(i, map) ==
    IF i > 0
    THEN LET rates == SlabColumns(rates_fx[i + 1], map)
         IN  Array([k \in 1..NumScenarios |->
                <<rates_and_fx(prev_rates_fx[i + 1], map[1], k - 1)>> \o rates[k]])
    ELSE SlabColumns(rates_fx[i + 1], map)

\* mtm[i][j, :]
PriceRow(i, j) ==
    Array([k \in 1..NumScenarios |-> mtm_irs(mtm[i + 1], port_idx[j + 1], k - 1)])

\* (x - min) / (max - min + 1e-16)
RescaleTrain(x, mn, mx) == [num |-> x - mn, den |-> mx - mn, eps |-> 1]

\* rates_sc_
RatesSc(rates_) ==
    LET mn == ColMin(rates_)
        mx == ColMax(rates_)
    IN  Array([k \in 1..Len(rates_) |->
            Array([c \in 1..Dim(rates_) |->
                RescaleTrain(rates_[k][c], mn[c], mx[c])])])

\* irs_prices_sc_: divided by the range unless the range is 0
PricesSc(irs_prices) ==
    LET mn == SeqMin(irs_prices)
        mx == SeqMax(irs_prices)
    IN  IF mx - mn # 0
        THEN Array([k \in 1..Len(irs_prices) |->
                [num |-> irs_prices[k] - mn, den |-> mx - mn, eps |-> 0]])
        ELSE Array([k \in 1..Len(irs_prices) |->
                [num |-> irs_prices[k] - mn, den |-> 1, eps |-> 0]])

\* portfolio[key]['min'][i] / ['max'][i]: the range of the training subset
TrainMin(rates_, ix) == ColMin(TakeRows(rates_, ix))

TrainMax(rates_, ix) == ColMax(TakeRows(rates_, ix))

\* gp.fit(X, y): the fitted regressor remembers what it was fitted on
Fit(i, j, ix) ==
    [rates_t |-> rates_fx[i + 1], prices_t |-> mtm[i + 1],
     instrument |-> port_idx[j + 1], n |-> Len(ix)]

\* the slots of portfolio[key] written by one iteration
Trained(slot, i, j, rates_, irs_prices, ix) ==
    [slot EXCEPT
        !.GPs[i + 1]      = Stored(Fit(i, j, ix)),
        !.min[i + 1]      = Stored(TrainMin(rates_, ix)),
        !.max[i + 1]      = Stored(TrainMax(rates_, ix)),
        !.min_sc_x[i + 1] = Stored(ColMin(rates_)),
        !.max_sc_x[i + 1] = Stored(ColMax(rates_)),
        !.min_sc_y[i + 1] = Stored(SeqMin(irs_prices)),
        !.max_sc_y[i + 1] = Stored(SeqMax(irs_prices))]

NewSlots ==
    [GPs      |-> [i \in 1..nt |-> Placeholder], weight |-> 1,
     min      |-> [i \in 1..nt |-> Placeholder],
     max      |-> [i \in 1..nt |-> Placeholder],
     min_sc_x |-> [i \in 1..nt |-> Placeholder],
     max_sc_x |-> [i \in 1..nt |-> Placeholder],
     min_sc_y |-> [i \in 1..nt |-> Placeholder],
     max_sc_y |-> [i \in 1..nt |-> Placeholder]]

\* portfolio = {...}; the loops start, or are over at once when nt = 0
InitPortfolio ==
    /\ pc = "portfolio"
    /\ portfolio' = [key \in Range(port_idx) |-> NewSlots]
    /\ ti' = 0
    /\ tj' = 0
    /\ pc' = IF nt > 0 THEN "train" ELSE "trained"
    /\ UNCHANGED <<dataVars, err, port_idx, irs_map, mtm, rates_fx,
                   prev_rates_fx, nt, idx, gp_in, simVars, epe, ssVars, clVars>>

\* the indices an iteration reads before it samples: port_idx[j],
\* prev_rates_fx[i], rates_fx[i] and the columns irs_map[port_idx[j]]
TrainIndexOK(i, j) ==
    /\ j < Len(port_idx)
    /\ i < Len(rates_fx)
    /\ i < Len(prev_rates_fx)
    /\ \A c \in Range(irs_map[port_idx[j + 1]]) : c < NumProcesses

\* the loop counters after iteration (i, j)
TrainAdvance(i, j) ==
    /\ tj' = IF j + 1 < NumTrained THEN j + 1 ELSE 0
    /\ ti' = IF j + 1 < NumTrained THEN i ELSE i + 1
    /\ pc' = IF j + 1 < NumTrained \/ i + 1 < nt THEN "train" ELSE "trained"

\* one iteration of the body of "for i in range(nt): for j in range(20)"
TrainStep ==
    /\ pc = "train"
    /\ IF ~TrainIndexOK(ti, tj)
       THEN /\ Raise("IndexError")
            /\ UNCHANGED <<portfolio, ti, tj, idx, gp_in>>
       ELSE LET key    == port_idx[tj + 1]
                rates_ == TrainRates(ti, irs_map[key])
            IN  \E out \in stratified_sampling(rates_, M) :
                  IF out.err # "none"
                  THEN /\ Raise(out.err)
                       /\ UNCHANGED <<portfolio, ti, tj, idx, gp_in>>
                  ELSE LET irs_prices == PriceRow(ti, tj)
                       IN  /\ idx' = out.val
                           /\ gp_in' = [X |-> TakeRows(RatesSc(rates_), out.val),
                                        y |-> TakeRows(PricesSc(irs_prices), out.val)]
                           /\ portfolio' =
                                [portfolio EXCEPT ![key] =
                                    Trained(@, ti, tj, rates_, irs_prices, out.val)]
                           /\ TrainAdvance(ti, tj)
                           /\ err' = err
    /\ UNCHANGED <<dataVars, port_idx, irs_map, mtm, rates_fx, prev_rates_fx,
                   nt, simVars, epe, ssVars, clVars>>

---------------------------------------------------------------------------
(* CVA_simulation *)

\* the values GaussianProcessRegressor.predict may return for one test
\* point: the mean on the unit scale and the standard deviation
PredScValues == {0, 1}

StdValues == {0, 1}

Zeros(n) == Array([m \in 1..n |-> 0])

\* np.random.choice(range(2*M), M)
PathChoices(m) == [1..m -> 0..(2 * m - 1)]

\* test_rates before the clipping loop, for the drawn scenarios ix
TestRates(i, map, ix) ==
    LET rates == SlabColumns(rates_fx[i + 1], map)
    IN  IF i > 0
        THEN Array([m \in 1..Len(ix) |->
                <<rates_and_fx(prev_rates_fx[i + 1], map[1], ix[m])>>
                \o rates[ix[m] + 1]])
        ELSE TakeRows(rates, ix)

\* a variant that clips at 'min' only
ClipValueBelowOnly(v, mn, mx) ==
    IF v < mn THEN mn ELSE v

\* the clipping loop: values below 'min' are set to 'min', values above
\* 'max' to 'max'; both masks are taken before either assignment
ClipValue(v, mn, mx) ==
    IF v > mx THEN mx ELSE IF v < mn THEN mn ELSE v

Clip(test, mn, mx) ==
    Array([m \in 1..Len(test) |->
        Array([k \in 1..Len(test[m]) |-> ClipValue(test[m][k], mn[k], mx[k])])])

\* (test_rates - min_) / (max_ - min_)
RescaleTest(x, mn, mx) == [num |-> x - mn, den |-> mx - mn, eps |-> 0]

TestRatesSc(test, mn, mx) ==
    Array([m \in 1..Len(test) |->
        Array([k \in 1..Len(test[m]) |-> RescaleTest(test[m][k], mn[k], mx[k])])])

\* 0/0 and x/0: what the division yields is no finite number
NotFinite(f) == f.den = 0 /\ f.eps = 0

\* predict validates its input: a NaN or an infinity is a ValueError
PredictAccepts(X) == \A m \in 1..Len(X) : \A k \in 1..Len(X[m]) : ~NotFinite(X[m][k])

\* the indices an instrument step reads: mtm[i][j, idx], rates_fx[i],
\* prev_rates_fx[i], port_idx[j] and the slots ['min'][i] ...
SimIndexOK(i, j, ix) ==
    /\ i < Len(mtm)
    /\ j < Len(port_idx)
    /\ \A m \in 1..Len(ix) : ix[m] < NumScenarios
    /\ i < nt

\* a variant that adds the standard deviations instead of the variances
AddInstrumentLinearVar(a, weight, pred_sc, std, min_y_, max_y_, irs_prices) ==
    [pred_ |-> Array([m \in 1..Len(pred_sc) |->
                  a.pred_[m] + weight * (min_y_ + pred_sc[m] * (max_y_ - min_y_))]),
     var_  |-> Array([m \in 1..Len(pred_sc) |->
                  a.var_[m] + weight * (std[m] * (max_y_ - min_y_))]),
     obs_  |-> Array([m \in 1..Len(pred_sc) |->
                  a.obs_[m] + weight * irs_prices[m]])]

\* one instrument's terms, as added to pred_, var_ and obs_
AddInstrument(a, weight, pred_sc, std, min_y_, max_y_, irs_prices) ==
    [pred_ |-> Array([m \in 1..Len(pred_sc) |->
                  a.pred_[m] + weight * (min_y_ + pred_sc[m] * (max_y_ - min_y_))]),
     var_  |-> Array([m \in 1..Len(pred_sc) |->
                  a.var_[m] + (weight * (std[m] * (max_y_ - min_y_)))
                            * (weight * (std[m] * (max_y_ - min_y_)))]),
     obs_  |-> Array([m \in 1..Len(pred_sc) |->
                  a.obs_[m] + weight * irs_prices[m]])]

\* the arguments tried: sim_params['M'], sim_params['nt'],
\* model_params['size'] and def_model['recovery'] in percent (the notebook
\* passes 1000, 10, 20 and 0.4)
SimArgs ==
    {[M |-> 1, nt |-> 0, size |-> 1, recovery |-> 100],
     [M |-> 1, nt |-> 1, size |-> 2, recovery |-> 40],
     [M |-> 2, nt |-> 1, size |-> 1, recovery |-> 40],
     [M |-> 1, nt |-> 2, size |-> 2, recovery |-> 0]}

\* CVA_0, pi_0 = CVA_simulation(sim_params, model_params, def_model): the
\* arguments are read and the arrays allocated; dt = T/nt divides by nt
SimCall ==
    /\ pc = "trained"
    /\ \E args \in SimArgs :
          /\ sim' = args
          /\ pi' = [tilde     |-> Array([i \in 1..args.nt |-> Zeros(args.M)]),
                    exact     |-> Array([i \in 1..args.nt |-> Zeros(args.M)]),
                    tilde_var |-> Array([i \in 1..args.nt |-> Zeros(args.M)])]
          /\ IF args.nt = 0 THEN Raise("ZeroDivisionError")
             ELSE pc' = "sim_date" /\ err' = err
    /\ si' = 0
    /\ UNCHANGED <<dataVars, port_idx, irs_map, mtm, rates_fx, prev_rates_fx,
                   nt, portfolio, ti, tj, idx, gp_in, sj, acc, test_raw,
                   test_rates, test_rates_sc, preds, CVA, ci, epe, ssVars, clVars>>

\* the head of "for i in range(nt)": pred_ = var_ = obs_ = 0, or the loop
\* is over and CVA = {...} is set to zeros
SimDateStart ==
    /\ pc = "sim_date"
    /\ IF si < sim.nt
       THEN /\ acc' = [pred_ |-> Zeros(sim.M), var_ |-> Zeros(sim.M),
                       obs_ |-> Zeros(sim.M)]
            /\ preds' = <<>>
            /\ sj' = 0
            /\ pc' = "sim_instrument"
            /\ UNCHANGED <<CVA, ci>>
       ELSE /\ CVA' = [tilde |-> 0, exact |-> 0, exact_up |-> 0,
                       exact_down |-> 0, tilde_up |-> 0, tilde_down |-> 0]
            /\ ci' = 0
            /\ pc' = "cva"
            /\ UNCHANGED <<acc, preds, sj>>
    /\ UNCHANGED <<dataVars, err, port_idx, irs_map, mtm, rates_fx,
                   prev_rates_fx, nt, portfolio, ti, tj, idx, gp_in, sim, pi,
                   si, test_raw, test_rates, test_rates_sc, epe, ssVars, clVars>>

\* one iteration of "for j in range(n_instruments)"
SimInstrument ==
    /\ pc = "sim_instrument"
    /\ \E ix \in PathChoices(sim.M) :
        IF ~SimIndexOK(si, sj, ix)
        THEN /\ Raise("IndexError")
             /\ UNCHANGED <<sj, acc, test_raw, test_rates, test_rates_sc, preds>>
        ELSE
          LET key   == port_idx[sj + 1]
              slots == portfolio[key]
              raw   == TestRates(si, irs_map[key], ix)
          IN
          IF slots.min[si + 1].is0
          THEN /\ Raise("TypeError")
               /\ test_raw' = raw
               /\ UNCHANGED <<sj, acc, test_rates, test_rates_sc, preds>>
          ELSE
            LET clipped == Clip(raw, slots.min[si + 1].v, slots.max[si + 1].v)
                scaled  == TestRatesSc(clipped, slots.min_sc_x[si + 1].v,
                                       slots.max_sc_x[si + 1].v)
                prices  == TakeRows(PriceRow(si, sj), ix)
            IN
            /\ test_raw' = raw
            /\ test_rates' = clipped
            /\ test_rates_sc' = scaled
            /\ IF ~PredictAccepts(scaled)
               THEN /\ Raise("ValueError")
                    /\ UNCHANGED <<sj, acc, preds>>
               ELSE \E pred_sc \in [1..sim.M -> PredScValues],
                       std \in [1..sim.M -> StdValues] :
                      /\ acc' = AddInstrument(acc, slots.weight, pred_sc, std,
                                              slots.min_sc_y[si + 1].v,
                                              slots.max_sc_y[si + 1].v, prices)
                      /\ preds' = Append(preds,
                            [weight |-> slots.weight, pred_sc |-> pred_sc,
                             std |-> std, min_y_ |-> slots.min_sc_y[si + 1].v,
                             max_y_ |-> slots.max_sc_y[si + 1].v,
                             irs_prices |-> prices])
                      /\ sj' = sj + 1
                      /\ pc' = IF sj + 1 < sim.size THEN "sim_instrument"
                               ELSE "sim_row"
                      /\ err' = err
    /\ UNCHANGED <<dataVars, port_idx, irs_map, mtm, rates_fx, prev_rates_fx,
                   nt, portfolio, ti, tj, idx, gp_in, sim, pi, si, CVA, ci,
                   epe, ssVars, clVars>>

\* pi[...][i, :] = pred_, obs_, var_; dPD[i, :] is the same positive
\* constant haz_rate * exp(-haz_rate*dt) on every date and path
SimDateEnd ==
    /\ pc = "sim_row"
    /\ pi' = [tilde     |-> [pi.tilde EXCEPT ![si + 1] = acc.pred_],
              exact     |-> [pi.exact EXCEPT ![si + 1] = acc.obs_],
              tilde_var |-> [pi.tilde_var EXCEPT ![si + 1] = acc.var_]]
    /\ si' = si + 1
    /\ pc' = "sim_date"
    /\ UNCHANGED <<dataVars, err, port_idx, irs_map, mtm, rates_fx,
                   prev_rates_fx, nt, portfolio, ti, tj, idx, gp_in, sim, sj,
                   acc, test_raw, test_rates, test_rates_sc, preds, CVA, ci,
                   epe, ssVars, clVars>>

\* the names bound in the notebook when CVA_simulation runs: the imports
\* and the top-level assignments and definitions
GlobalNames ==
    {"plt", "np", "gaussian_process", "ConstantKernel", "RBF", "Matern",
     "mtm_irs", "rates_and_fx", "irs_params", "rate_params", "cpty_idx",
     "port_idx", "T", "reset_idx", "M", "irs_map", "mtm", "rates_fx",
     "prev_rates_fx", "nt", "stratified_sampling", "sk_kernel_matern",
     "sk_kernel_rbf", "portfolio", "gps", "CVA_simulation", "def_model",
     "sim_params", "model_params"}

\* the largest r with r * r <= x
Isqrt(x) == CHOOSE r \in 0..x : r * r <= x /\ (r + 1) * (r + 1) > x

\* M * np.mean(dPD*row) * exp(-r*(time-t0)) * dt, in units of dPD * dt with
\* no discounting (r = 0)
MuTimesM(row) == SumSeq(row)

\* M * 2 * np.std(dPD*row) * ... * dt / sqrt(M), in the same units, rounded
\* down to a whole unit: 2 * sqrt(sum((x - mean)^2))
TwoStdErrTimesM(row) ==
    2 * Isqrt((Len(row) * SumSeq([m \in 1..Len(row) |-> row[m] * row[m]])
               - SumSeq(row) * SumSeq(row)) \div Len(row))

\* the sums of "for i in range(nt)" over the dates, then the scaling by
\* (1 - recovery), recovery in percent
CVAResult(recovery) ==
    LET Sum(f(_)) == SumSeq(Array([i \in 1..sim.nt |-> f(i)]))
        mu_t(i)  == MuTimesM(pi.tilde[i])
        mu_e(i)  == MuTimesM(pi.exact[i])
        up_t(i)  == MuTimesM(pi.tilde[i]) + TwoStdErrTimesM(pi.tilde[i])
        dn_t(i)  == MuTimesM(pi.tilde[i]) - TwoStdErrTimesM(pi.tilde[i])
        up_e(i)  == MuTimesM(pi.exact[i]) + TwoStdErrTimesM(pi.exact[i])
        dn_e(i)  == MuTimesM(pi.exact[i]) - TwoStdErrTimesM(pi.exact[i])
    IN  [tilde      |-> Sum(mu_t) * (100 - recovery),
         tilde_up   |-> Sum(up_t) * (100 - recovery),
         tilde_down |-> Sum(dn_t) * (100 - recovery),
         exact      |-> Sum(mu_e) * (100 - recovery),
         exact_up   |-> Sum(up_e) * (100 - recovery),
         exact_down |-> Sum(dn_e) * (100 - recovery)]

\* "for i in range(nt)" over the CVA sums, the scaling and the return: the
\* first iteration adds mu_tilde and then evaluates sqrt(M)
CVALoop ==
    /\ pc = "cva"
    /\ IF sim.nt > 0 /\ "sqrt" \notin GlobalNames
       THEN /\ CVA' = [CVA EXCEPT !.tilde = MuTimesM(pi.tilde[1])]
            /\ Raise("NameError")
            /\ ci' = 0
       ELSE /\ CVA' = CVAResult(sim.recovery)
            /\ ci' = sim.nt
            /\ pc' = "returned"
            /\ err' = err
    /\ UNCHANGED <<dataVars, port_idx, irs_map, mtm, rates_fx, prev_rates_fx,
                   nt, portfolio, ti, tj, idx, gp_in, sim, pi, si, sj, acc,
                   test_raw, test_rates, test_rates_sc, preds, epe, ssVars, clVars>>

Next ==
    \/ SelectPortfolio
    \/ BuildIrsMap
    \/ BuildMtm
    \/ InitPortfolio
    \/ TrainStep
    \/ SimCall
    \/ SimDateStart
    \/ SimInstrument
    \/ SimDateEnd
    \/ CVALoop

---------------------------------------------------------------------------
(* The notebook's inputs *)

\* the data files hold 1..MaxT time steps
MaxT == 16

\* the selected counterparty holds NumTrained - 1 .. NumTrained + MaxExtra
\* instruments
MaxExtra == 1

\* the notebook's M (2000 there): 4^2 and 4^3 are the smallest values for
\* which a stratum of 2 or of 3 factors is sampled at all
GlobalMs == {16, 64}

\* the simulated columns: spread rates and FX, a constant FX column, FX
\* moving with the rate, and prices that are all equal
Shapes ==
    {[rate |-> "A8", fx |-> "hi4", price |-> "spread"],
     [rate |-> "A8", fx |-> "const", price |-> "spread"],
     [rate |-> "A8", fx |-> "lo4", price |-> "spread"],
     [rate |-> "A8", fx |-> "hi4", price |-> "flat"]}

\* irs_params['arr_0']: an instrument of another counterparty, then size
\* instruments of counterparty 0, in foreign currencies 1..10 throughout
\* or with one domestic (currency 0) instrument among them
IrsParams(size, kind) ==
    [n \in 1..(size + 1) |->
        IF n = 1 THEN [cpty |-> 1, ccy |-> 3]
        ELSE [cpty |-> 0,
              ccy  |-> IF kind = "domestic" /\ n = 3 THEN 0
                       ELSE 1 + ((n - 2) % n_fx)]]

NoSimulation ==
    /\ sim = <<>> /\ pi = <<>> /\ si = 0 /\ sj = 0 /\ acc = <<>>
    /\ test_raw = <<>> /\ test_rates = <<>> /\ test_rates_sc = <<>>
    /\ preds = <<>> /\ CVA = <<>> /\ ci = 0

NoDirectCall ==
    /\ ss_ar = <<>> /\ ss_M = 0 /\ ss_out = [err |-> "none", val |-> <<>>]
    /\ cl_test = <<>> /\ cl_min = <<>> /\ cl_max = <<>>
    /\ cl_out = [done |-> TRUE, val |-> <<>>]

Init ==
    /\ T \in 1..MaxT
    /\ irs_params \in {IrsParams(size, kind) :
                          size \in (NumTrained - 1)..(NumTrained + MaxExtra),
                          kind \in {"foreign", "domestic"}}
    /\ shape \in Shapes
    /\ M \in GlobalMs
    /\ pc = "select" /\ err = "none"
    /\ port_idx = <<>> /\ irs_map = <<>>
    /\ mtm = <<>> /\ rates_fx = <<>> /\ prev_rates_fx = <<>> /\ nt = 0
    /\ portfolio = <<>> /\ ti = 0 /\ tj = 0 /\ idx = <<>> /\ gp_in = <<>>
    /\ NoSimulation
    /\ epe = <<>>
    /\ NoDirectCall

Spec == Init /\ [][Next]_vars

---------------------------------------------------------------------------
(* A direct call of stratified_sampling: the inputs *)

\* bounds of the arrays and of the random draws explored
MaxRows == 6

MaxFanout == 16

\* the sample sizes M tried: below 4^2, at 4^2, at 4^3, and above 2 * 4^3
SSMs == {0, 16, 64, 130}

ColShapes == {"asc", "desc", "const", "half", "vee"}

\* the value in row k (from 0) of a column of n rows
ColValue(s, n, k) ==
    CASE s = "asc"   -> k
      [] s = "desc"  -> n - 1 - k
      [] s = "const" -> 0
      [] s = "half"  -> k \div 2
      [] s = "vee"   -> IF 2 * k >= n - 1 THEN 2 * k - (n - 1) ELSE (n - 1) - 2 * k

MkArray(n, shapes) ==
    Array([r \in 1..n |->
        Array([c \in 1..Len(shapes) |-> ColValue(shapes[c], n, r - 1)])])

\* arrays of 1..MaxRows rows and 1, 2 or 3 columns
SSArrays ==
    {MkArray(n, sh) : n \in 1..MaxRows,
                      sh \in UNION {[1..d -> ColShapes] : d \in 1..3}}

RECURSIVE CappedProduct(_, _, _)
CappedProduct(f, lo, hi) ==
    IF lo > hi THEN 1
    ELSE IF lo = hi THEN Min2(f[lo], MaxFanout + 1)
    ELSE Min2(CappedProduct(f, lo, (lo + hi) \div 2)
                * CappedProduct(f, (lo + hi) \div 2 + 1, hi), MaxFanout + 1)

\* the number of ways the draws of np.random.choice can come out for
\* (ar, m), counted up to MaxFanout + 1
Fanout(ar, m) ==
    LET masks == BucketMasks(ar)
        ns    == NumSamples(ar, m)
        cells == IF Dim(ar) = 2 THEN Cells2 ELSE Cells3
        ways  == Array([n \in 1..Len(cells) |->
                    LET l == Len(StratumRows(masks, cells[n]))
                    IN  IF l > ns \/ l <= 1 \/ ns = 0 THEN 1
                        ELSE IF ns > 4 THEN MaxFanout + 1
                        ELSE Pow(l, ns)])
    IN  IF Dim(ar) < 2 THEN 1 ELSE CappedProduct(ways, 1, Len(cells))

Pending == [err |-> "pending", val |-> <<>>]

\* the notebook is not running
NotebookIdle ==
    /\ T = 0 /\ irs_params = <<>> /\ shape = <<>> /\ M = 0
    /\ pc = "idle" /\ err = "none" /\ port_idx = <<>> /\ irs_map = <<>>
    /\ mtm = <<>> /\ rates_fx = <<>> /\ prev_rates_fx = <<>> /\ nt = 0
    /\ portfolio = <<>> /\ ti = 0 /\ tj = 0 /\ idx = <<>> /\ gp_in = <<>>
    /\ sim = <<>> /\ pi = <<>> /\ si = 0 /\ sj = 0 /\ acc = <<>>
    /\ test_raw = <<>> /\ test_rates = <<>> /\ test_rates_sc = <<>>
    /\ preds = <<>> /\ CVA = <<>> /\ ci = 0

InitSS ==
    /\ NotebookIdle
    /\ epe = <<>>
    /\ cl_test = <<>> /\ cl_min = <<>> /\ cl_max = <<>>
    /\ cl_out = [done |-> TRUE, val |-> <<>>]
    /\ ss_ar \in SSArrays
    /\ ss_M \in SSMs
    /\ Fanout(ss_ar, ss_M) <= MaxFanout
    /\ ss_out = Pending

\* idx = stratified_sampling(ss_ar, ss_M)
SSCall ==
    /\ ss_out = Pending
    /\ ss_out' \in stratified_sampling(ss_ar, ss_M)
    /\ UNCHANGED <<dataVars, nbVars, simVars, epe, ss_ar, ss_M, clVars>>

NextSS == SSCall

SpecSS == InitSS /\ [][NextSS]_vars

---------------------------------------------------------------------------
(* The clipping loop of CVA_simulation on its own *)

\* the rows of test_rates explored, its numbers of columns, its values and
\* the bounds 'min' <= 'max' of a training set
MaxClipRows == 2

ClipDims == {1, 2}

ClipValues == -1..2

ClipBounds == 0..1

InitClip ==
    /\ NotebookIdle
    /\ epe = <<>>
    /\ ss_ar = <<>> /\ ss_M = 0 /\ ss_out = [err |-> "none", val |-> <<>>]
    /\ \E rows \in 1..MaxClipRows, dim \in ClipDims :
          /\ cl_test \in [1..rows -> [1..dim -> ClipValues]]
          /\ cl_min \in [1..dim -> ClipBounds]
          /\ cl_max \in [1..dim -> ClipBounds]
          /\ \A k \in 1..dim : cl_min[k] <= cl_max[k]
    /\ cl_out = [done |-> FALSE, val |-> <<>>]

\* for k in range(dim): ... test_rates[idx_min, k] = 'min'[i][k] ...
ClipCall ==
    /\ ~cl_out.done
    /\ cl_out' = [done |-> TRUE, val |-> Clip(cl_test, cl_min, cl_max)]
    /\ UNCHANGED <<dataVars, nbVars, simVars, epe, ssVars, cl_test, cl_min, cl_max>>

NextClip == ClipCall

SpecClip == InitClip /\ [][NextClip]_vars

---------------------------------------------------------------------------
(* The EPE cell on its own, on any pi_0 *)

\* the paths, the exposure dates and the portfolio values explored; the
\* analytical values differ from the GP values by a common error
MaxEpePaths == 2

EpeDates == {1, 2}

EpeValues == {-2, 0, 1}

EpeErrors == {-1, 0, 1}

EpeVariances == {0, 1}

\* np.mean(a, axis=1), each mean kept as [num, den]
MeanAxis1(a) ==
    Array([i \in 1..Len(a) |-> [num |-> SumSeq(a[i]), den |-> Len(a[i])]])

InitEPE ==
    /\ T = 0 /\ irs_params = <<>> /\ shape = <<>> /\ M = 0
    /\ pc = "returned" /\ err = "none" /\ port_idx = <<>> /\ irs_map = <<>>
    /\ mtm = <<>> /\ rates_fx = <<>> /\ prev_rates_fx = <<>> /\ nt = 0
    /\ portfolio = <<>> /\ ti = 0 /\ tj = 0 /\ idx = <<>> /\ gp_in = <<>>
    /\ sim = <<>> /\ si = 0 /\ sj = 0 /\ acc = <<>>
    /\ test_raw = <<>> /\ test_rates = <<>> /\ test_rates_sc = <<>>
    /\ preds = <<>> /\ CVA = <<>> /\ ci = 0
    /\ \E n \in EpeDates, m \in 1..MaxEpePaths, e \in EpeErrors, v \in EpeVariances :
          \E tilde \in [1..n -> [1..m -> EpeValues]] :
              pi = [tilde     |-> tilde,
                    exact     |-> [i \in 1..n |-> [p \in 1..m |-> tilde[i][p] + e]],
                    tilde_var |-> [i \in 1..n |-> [p \in 1..m |-> v]]]
    /\ epe = <<>>
    /\ NoDirectCall

\* epe_gp, epe_obs, epe_var = np.mean(pi_0[...], axis=1)
ExpectedExposure ==
    /\ pc = "returned"
    /\ epe' = [epe_gp  |-> MeanAxis1(pi.tilde),
               epe_obs |-> MeanAxis1(pi.exact),
               epe_var |-> MeanAxis1(pi.tilde_var)]
    /\ pc' = "epe"
    /\ UNCHANGED <<dataVars, err, port_idx, irs_map, mtm, rates_fx,
                   prev_rates_fx, nt, portfolio, ti, tj, idx, gp_in, simVars,
                   ssVars, clVars>>

NextEPE == ExpectedExposure

SpecEPE == InitEPE /\ [][NextEPE]_vars

---------------------------------------------------------------------------
(* Properties *)

\* C1: once the training loop is over, every instrument of port_idx has,
\* at every time step i < nt, a GP fitted on that instrument's prices and
\* that step's market factors (no slot keeps its placeholder), and every
\* i < nt indexes an existing entry of mtm, rates_fx and prev_rates_fx,
\* whatever T and the size of the portfolio.
C1_EverySlotFitted ==
    /\ pc \in {"portfolio", "train", "trained"} =>
          /\ nt <= Len(mtm)
          /\ nt <= Len(rates_fx)
          /\ nt <= Len(prev_rates_fx)
    /\ pc = "trained" =>
          \A key \in Range(port_idx) : \A i \in 1..nt :
              /\ ~portfolio[key].GPs[i].is0
              /\ portfolio[key].GPs[i].v.instrument = key
              /\ portfolio[key].GPs[i].v.prices_t = mtm[i]
              /\ portfolio[key].GPs[i].v.rates_t = rates_fx[i]

\* C2: after the clipping loop every value of test_rates lies between the
\* 'min' and the 'max' of its column, and a value that was already between
\* them is unchanged.
C2_ClippedToTrainingRange ==
    cl_out.done =>
        /\ Len(cl_out.val) = Len(cl_test)
        /\ \A m \in 1..Len(cl_test) : \A k \in 1..Len(cl_min) :
              /\ cl_min[k] <= cl_out.val[m][k]
              /\ cl_out.val[m][k] <= cl_max[k]
              /\ (cl_min[k] <= cl_test[m][k] /\ cl_test[m][k] <= cl_max[k])
                    => cl_out.val[m][k] = cl_test[m][k]

\* C2 witness: the loop has run on rows holding a value below 'min', a
\* value above 'max' and a value between them.
C2_ClippingHappened ==
    /\ cl_out.done
    /\ \E m \in 1..Len(cl_test) : \E k \in 1..Len(cl_min) : cl_test[m][k] < cl_min[k]
    /\ \E m \in 1..Len(cl_test) : \E k \in 1..Len(cl_min) : cl_test[m][k] > cl_max[k]
    /\ \E m \in 1..Len(cl_test) : \E k \in 1..Len(cl_min) :
          /\ cl_min[k] < cl_max[k]
          /\ cl_test[m][k] = cl_max[k]
          /\ cl_out.val[m][k] = cl_max[k]

\* a quotient num / (den + eps * 1e-16) that is a number of [0, 1]
InUnit(f) ==
    /\ f.den > 0 \/ f.eps > 0
    /\ 0 <= f.num
    /\ f.num <= f.den

\* C3: every value handed to a GP lies in the unit interval: the training
\* inputs and prices given to fit, and the test inputs given to predict,
\* also when a column of market factors is constant.
C3_UnitInterval ==
    /\ Len(idx) > 0 =>
          /\ \A m \in 1..Len(gp_in.X) : \A k \in 1..Len(gp_in.X[m]) :
                InUnit(gp_in.X[m][k])
          /\ \A m \in 1..Len(gp_in.y) : InUnit(gp_in.y[m])
    /\ \A m \in 1..Len(test_rates_sc) : \A k \in 1..Len(test_rates_sc[m]) :
          InUnit(test_rates_sc[m][k])

\* the sum over the instruments of the last exposure date of term(j)
SumOverInstruments(term(_)) ==
    SumSeq([j \in 1..Len(preds) |-> term(j)])

PositivePart(row) == [m \in 1..Len(row) |-> Max2(row[m], 0)]

C6_MapFollowsLayout ==
    \A i \in DOMAIN irs_map :
        LET c == irs_params[i + 1].ccy
        IN  /\ c = 0 => irs_map[i] = <<0>>
            /\ c \in 1..n_fx =>
                  /\ irs_map[i] = <<c, n_r + c - 1>>
                  /\ irs_map[i][1] < n_r
                  /\ irs_map[i][2] \in n_r..(n_r + n_fx - 1)
            /\ \A k \in 1..Len(irs_map[i]) :
                  irs_map[i][k] >= 0 /\ irs_map[i][k] < NumProcesses

\* C6 witness: the map is built for a portfolio holding a domestic
\* instrument and an instrument of the last foreign currency.
C6_MapBuilt ==
    /\ pc = "mtm"
    /\ \E i \in DOMAIN irs_map : irs_params[i + 1].ccy = 0
    /\ \E i \in DOMAIN irs_map :
          irs_params[i + 1].ccy = n_fx /\ irs_map[i][2] = NumProcesses - 1

\* C7: the index array stratified_sampling returns holds, for every column
\* of ar, the row of the column's minimum and the row of its maximum, so
\* the minimum and maximum of the rows it selects are those of ar.
C7_MinMaxRowsSelected ==
    ss_out.err = "none" /\ Len(ss_ar) > 0 =>
        /\ \A c \in 1..Dim(ss_ar) :
              /\ ArgMin(Column(ss_ar, c - 1)) \in Range(ss_out.val)
              /\ ArgMax(Column(ss_ar, c - 1)) \in Range(ss_out.val)
        /\ ColMin(TakeRows(ss_ar, ss_out.val)) = ColMin(ss_ar)
        /\ ColMax(TakeRows(ss_ar, ss_out.val)) = ColMax(ss_ar)

\* C7 witness: a call has returned on an array where the rows sampled from
\* the strata miss the row of some column's maximum.
C7_MaxRowOnlyByOverwrite ==
    /\ ss_out.err = "none"
    /\ Len(ss_ar) > 0
    /\ Len(ss_out.val) > 2 * Dim(ss_ar)
    /\ \E c \in 1..Dim(ss_ar) :
          \A p \in 1..Len(ss_out.val) :
              ss_out.val[p] = ArgMax(Column(ss_ar, c - 1))
                  => (p > Dim(ss_ar) /\ p <= 2 * Dim(ss_ar))

\* the strata of ar that hold at least one row
NonEmptyStrata(ar) ==
    LET cells == IF Dim(ar) = 2 THEN Cells2 ELSE Cells3
        masks == BucketMasks(ar)
    IN  {n \in 1..Len(cells) : Len(StratumRows(masks, cells[n])) > 0}

\* C8: on an array of 2 or 3 columns stratified_sampling returns without
\* error valid row indices, num_samples of them for every non-empty
\* stratum; an empty stratum contributes nothing, with 2 columns as with 3.
C8_ReturnsForEveryArray ==
    (ss_out.err # "pending" /\ Len(ss_ar) > 0 /\ Dim(ss_ar) \in {2, 3}) =>
        /\ ss_out.err = "none"
        /\ Len(ss_out.val)
              = NumSamples(ss_ar, ss_M) * Cardinality(NonEmptyStrata(ss_ar))
        /\ \A p \in 1..Len(ss_out.val) :
              ss_out.val[p] >= 0 /\ ss_out.val[p] < Len(ss_ar)

\* C9: CVA_simulation returns, and what it returns is ordered for both
\* models: down <= central estimate <= up, each bound being the central
\* estimate shifted by 2 standard errors summed over the dates and scaled
\* by (1 - recovery).
C9_ReturnsOrderedBounds ==
    /\ err # "NameError"
    /\ pc = "returned" =>
          /\ CVA.tilde_down <= CVA.tilde /\ CVA.tilde <= CVA.tilde_up
          /\ CVA.exact_down <= CVA.exact /\ CVA.exact <= CVA.exact_up
          /\ CVA.tilde_up - CVA.tilde = CVA.tilde - CVA.tilde_down
          /\ CVA.exact_up - CVA.exact = CVA.exact - CVA.exact_down

=============================================================================
